---- MODULE Spec2Model ----
(***************************************************************************)
(* Model of the command execution engine of the assistant:                 *)
(*   src/command_executor.py  read_output, execute_command_realtime,       *)
(*                            execute_commands, is_safe_command,           *)
(*                            filter_commands                              *)
(*   src/main.py              extract_commands, handle_special_command,    *)
(*                            run_assistant_loop                           *)
(* Python strings are modelled as sequences of one-character strings, so   *)
(* that split, strip, join, formatting and substring search are computed   *)
(* and not assumed.                                                        *)
(***************************************************************************)
EXTENDS Integers, Sequences, FiniteSets, TLC

(***************************************************************************)
(* Bounds of the model.                                                    *)
(***************************************************************************)
MaxLines == 2        \* lines of the command text handed over by the caller
MaxWritten == 2      \* lines the child processes of one run write in all
MaxTime == 2         \* largest reading of the wall clock (seconds)
MaxTextLen == 5      \* characters of a text handed to filter_commands alone

(***************************************************************************)
(* Strings.                                                                *)
(***************************************************************************)
\* str.strip() and the regular expression class \s: white space characters
Whitespace == {" ", "\t", "\n", "\r"}

\* str.strip(): what lies between the first and the last character that is
\* not white space
Strip(s) ==
    LET inked == {k \in 1..Len(s) : s[k] \notin Whitespace}
    IN  IF inked = {} THEN <<>>
        ELSE SubSeq(s, CHOOSE k \in inked : \A m \in inked : k <= m,
                       CHOOSE k \in inked : \A m \in inked : k >= m)

\* str.startswith(p)
StartsWith(s, p) == Len(s) >= Len(p) /\ SubSeq(s, 1, Len(p)) = p

\* sub in s
Contains(s, sub) ==
    \E k \in 0..(Len(s) - Len(sub)) : SubSeq(s, k + 1, k + Len(sub)) = sub

\* where sub stands first in s; 0 if nowhere
FirstAt(sub, s) ==
    LET at == {k \in 1..(Len(s) - Len(sub) + 1) :
                  SubSeq(s, k, k + Len(sub) - 1) = sub}
    IN  IF at = {} THEN 0 ELSE CHOOSE k \in at : \A m \in at : k <= m

\* s.count(sub), overlapping occurrences counted too
Occurrences(sub, s) ==
    Cardinality({k \in 0..(Len(s) - Len(sub)) : SubSeq(s, k + 1, k + Len(sub)) = sub})

\* str.split('\n'): the pieces between the newlines, always at least one
Split(s) ==
    LET breaks == {k \in 1..Len(s) : s[k] = "\n"}
        count == Cardinality(breaks)
        \* position of the n-th newline; 0 before the text, Len(s) + 1 after
        At(n) == IF n = 0 THEN 0
                 ELSE IF n > count THEN Len(s) + 1
                 ELSE CHOOSE k \in breaks :
                          Cardinality({m \in breaks : m < k}) = n - 1
    IN  [n \in 1..(count + 1) |-> SubSeq(s, At(n - 1) + 1, At(n) - 1)]

\* ''.join(parts)
RECURSIVE Concat(_)
Concat(parts) ==
    IF parts = <<>> THEN <<>> ELSE Head(parts) \o Concat(Tail(parts))

\* '\n'.join(parts)
RECURSIVE Join(_)
Join(parts) ==
    IF parts = <<>> THEN <<>>
    ELSE IF Len(parts) = 1 THEN parts[1]
    ELSE parts[1] \o <<"\n">> \o Join(Tail(parts))

\* str(n) for n >= 0, as the f-strings format an int
DigitChar(d) == <<"0", "1", "2", "3", "4", "5", "6", "7", "8", "9">>[d + 1]

RECURSIVE Digits(_)
Digits(n) ==
    IF n < 10 THEN <<DigitChar(n)>>
    ELSE Append(Digits(n \div 10), DigitChar(n % 10))

(***************************************************************************)
(* is_safe_command: the denylist of regular expressions, searched with     *)
(* re.IGNORECASE.  A pattern is a sequence of items; an item matches one   *)
(* character, or one or more of them when it carries the quantifier +.     *)
(***************************************************************************)
UpperChars ==
    <<"A", "B", "C", "D", "E", "F", "G", "H", "I", "J", "K", "L", "M", "N",
      "O", "P", "Q", "R", "S", "T", "U", "V", "W", "X", "Y", "Z">>

LowerChars ==
    <<"a", "b", "c", "d", "e", "f", "g", "h", "i", "j", "k", "l", "m", "n",
      "o", "p", "q", "r", "s", "t", "u", "v", "w", "x", "y", "z">>

\* case folding of re.IGNORECASE
UpperSet == {UpperChars[k] : k \in 1..Len(UpperChars)}

\* mutant: the search without re.IGNORECASE
LowerAsIs(c) == c

Lower(c) ==
    IF c \in UpperSet
    THEN LowerChars[CHOOSE k \in 1..Len(UpperChars) : UpperChars[k] = c]
    ELSE c

\* a literal text: each character matches itself, ignoring case
Lit(str) == [k \in 1..Len(str) |-> [kind |-> "lit", ch |-> str[k], plus |-> FALSE]]

\* \s+
SpacePlus == <<[kind |-> "space", ch |-> " ", plus |-> TRUE]>>

\* [/~]
RootOrHome == <<[kind |-> "roothome", ch |-> " ", plus |-> FALSE]>>

\* .+
DotPlus == <<[kind |-> "dot", ch |-> " ", plus |-> TRUE]>>

ItemMatches(item, c) ==
    CASE item.kind = "lit" -> Lower(c) = Lower(item.ch)
      [] item.kind = "space" -> c \in Whitespace
      [] item.kind = "roothome" -> c \in {"/", "~"}
      [] item.kind = "dot" -> c # "\n"

\* the items of pat from the i-th on match a prefix of s that starts at j
RECURSIVE MatchAt(_, _, _, _)
MatchAt(pat, i, s, j) ==
    IF i > Len(pat) THEN TRUE
    ELSE IF j > Len(s) THEN FALSE
    ELSE /\ ItemMatches(pat[i], s[j])
         /\ \/ MatchAt(pat, i + 1, s, j + 1)
            \/ pat[i].plus /\ MatchAt(pat, i, s, j + 1)

\* re.search(pattern, s, re.IGNORECASE), pattern given by its alternatives
Search(alternatives, s) ==
    \E alt \in alternatives : \E j \in 1..(Len(s) + 1) : MatchAt(alt, 1, s, j)

\* the list dangerous_patterns; the fourth pattern, written without
\* escapes, is read by re as  :  followed by the alternatives  (){:  and
\* &};:  with an empty group, so it has the alternatives :{: and :&};:
dangerous_patterns ==
    << {Lit(<<"r", "m">>) \o SpacePlus \o Lit(<<"-", "r", "f">>)
            \o SpacePlus \o RootOrHome},
       {Lit(<<"m", "k", "f", "s">>)},
       {Lit(<<"d", "d">>) \o SpacePlus
            \o Lit(<<"i", "f", "=", "/", "d", "e", "v", "/", "z", "e", "r", "o">>)},
       {Lit(<<":", "{", ":">>), Lit(<<":", "&", "}", ";", ":">>)},
       {Lit(<<"c", "h", "m", "o", "d">>) \o SpacePlus \o Lit(<<"-", "R">>)
            \o SpacePlus \o Lit(<<"7", "7", "7">>) \o SpacePlus \o RootOrHome},
       {Lit(<<"w", "g", "e", "t">>) \o DotPlus \o SpacePlus \o Lit(<<"|">>)
            \o SpacePlus \o Lit(<<"b", "a", "s", "h">>)},
       {Lit(<<"c", "u", "r", "l">>) \o DotPlus \o SpacePlus \o Lit(<<"|">>)
            \o SpacePlus \o Lit(<<"b", "a", "s", "h">>)} >>

\* mutant: a colon anywhere makes the line unsafe
is_safe_command_no_colon(command) ==
    /\ ~Contains(command, <<":">>)
    /\ ~ \E k \in 1..Len(dangerous_patterns) : Search(dangerous_patterns[k], command)

\* lines 157-162: no pattern is found in the line
is_safe_command(command) ==
    ~ \E k \in 1..Len(dangerous_patterns) : Search(dangerous_patterns[k], command)

(***************************************************************************)
(* filter_commands                                                         *)
(***************************************************************************)
SkipMarkerHead ==
    <<"#", " ", "S", "K", "I", "P", "P", "E", "D", " ", "P", "O", "T", "E",
      "N", "T", "I", "A", "L", "L", "Y", " ", "U", "N", "S", "A", "F", "E",
      " ", "C", "O", "M", "M", "A", "N", "D", " ", "(", "l", "i", "n", "e",
      " ">>

\* mutant: the marker and the original line on two lines
SkipMarkerTwoLines(n, line) ==
    SkipMarkerHead \o Digits(n) \o <<")", ":", "\n">> \o line

\* mutant: the marker does not begin with the comment sign
SkipMarkerBare(n, line) ==
    SubSeq(SkipMarkerHead, 3, Len(SkipMarkerHead)) \o Digits(n)
        \o <<")", ":", " ">> \o line

\* f"# SKIPPED POTENTIALLY UNSAFE COMMAND (line {i+1}): {line}"
SkipMarker(n, line) == SkipMarkerHead \o Digits(n) \o <<")", ":", " ">> \o line

\* "if not line.strip() or line.strip().startswith('#')"
IsBlankOrComment(line) == Strip(line) = <<>> \/ StartsWith(Strip(line), <<"#">>)

\* mutant: the unsafe line is reported but not replaced
FilterLineKept(n, line) == line

\* one pass of the loop over enumerate(lines); n is i + 1
FilterLine(n, line) ==
    IF IsBlankOrComment(line) THEN line
    ELSE IF is_safe_command(line) THEN line
    ELSE SkipMarker(n, line)

\* mutant: a comment line that matches the denylist is reported as well
IsSkippedInComments(line) == ~is_safe_command(line)

\* lines 180-189: the line reaches the else branch and is reported
IsSkipped(line) == ~IsBlankOrComment(line) /\ ~is_safe_command(line)

\* the pair returned by filter_commands
filter_commands(commands) ==
    LET lines == Split(commands)
        kept == [n \in 1..Len(lines) |-> FilterLine(n, lines[n])]
        skippedAt == {n \in 1..Len(lines) : IsSkipped(lines[n])}
        RECURSIVE Skipped(_)
        Skipped(n) ==
            IF n > Len(lines) THEN <<>>
            ELSE IF n \in skippedAt THEN <<<<n, lines[n]>>>> \o Skipped(n + 1)
            ELSE Skipped(n + 1)
    IN  [filtered |-> Join(kept), skipped |-> Skipped(1)]

(***************************************************************************)
(* Texts of the transcript of execute_commands.                            *)
(***************************************************************************)
NoCommandsText ==
    <<"N", "o", " ", "c", "o", "m", "m", "a", "n", "d", "s", " ", "t", "o",
      " ", "e", "x", "e", "c", "u", "t", "e", ".">>

ErrorMark == <<"E", "R", "R", "O", "R", ":">>

\* f"ERROR: {stderr_line}"
ErrorTagged(line) == ErrorMark \o <<" ">> \o line

\* f"\nERROR: Command execution timed out after {timeout} seconds."
TimeoutNotice(t) ==
    <<"\n">> \o ErrorMark
      \o <<" ", "C", "o", "m", "m", "a", "n", "d", " ", "e", "x", "e", "c",
           "u", "t", "i", "o", "n", " ", "t", "i", "m", "e", "d", " ", "o",
           "u", "t", " ", "a", "f", "t", "e", "r", " ">>
      \o Digits(t) \o <<" ", "s", "e", "c", "o", "n", "d", "s", ".">>

\* mutant: the header numbers the commands from 0
CommandHeaderFromZero(n, cmd) ==
    <<"\n", "#", " ", "C", "o", "m", "m", "a", "n", "d", " ">>
      \o Digits(n - 1) \o <<":", " ">> \o cmd

\* f"\n# Command {i+1}: {cmd}"
CommandHeader(n, cmd) ==
    <<"\n", "#", " ", "C", "o", "m", "m", "a", "n", "d", " ">>
      \o Digits(n) \o <<":", " ">> \o cmd

\* mutant: the failure notice without the mark ERROR:
FailureNoticeUnmarked(code) ==
    <<"\n", "C", "o", "m", "m", "a", "n", "d", " ", "f", "a", "i", "l", "e",
      "d", " ", "w", "i", "t", "h", " ", "e", "x", "i", "t", " ", "c", "o",
      "d", "e", " ">>
      \o Digits(code)

\* f"\nERROR: Command failed with exit code {exit_code}"
FailureNotice(code) ==
    <<"\n">> \o ErrorMark
      \o <<" ", "C", "o", "m", "m", "a", "n", "d", " ", "f", "a", "i", "l",
           "e", "d", " ", "w", "i", "t", "h", " ", "e", "x", "i", "t", " ",
           "c", "o", "d", "e", " ">>
      \o Digits(code)

\* f"\n=== Execution completed in {execution_time:.2f} seconds ===" for a
\* clock that counts whole seconds
SummaryLine(elapsed) ==
    <<"\n", "=", "=", "=", " ", "E", "x", "e", "c", "u", "t", "i", "o", "n",
      " ", "c", "o", "m", "p", "l", "e", "t", "e", "d", " ", "i", "n", " ">>
      \o Digits(elapsed) \o <<".", "0", "0">>
      \o <<" ", "s", "e", "c", "o", "n", "d", "s", " ", "=", "=", "=">>

\* mutant: only the blank lines are left out, the comments are kept
RECURSIVE CommandLinesWithComments(_)
CommandLinesWithComments(lines) ==
    IF lines = <<>> THEN <<>>
    ELSE IF Strip(Head(lines)) = <<>>
    THEN CommandLinesWithComments(Tail(lines))
    ELSE <<Head(lines)>> \o CommandLinesWithComments(Tail(lines))

\* the list comprehension that builds command_lines
RECURSIVE CommandLinesOf(_)
CommandLinesOf(lines) ==
    IF lines = <<>> THEN <<>>
    ELSE IF IsBlankOrComment(Head(lines)) THEN CommandLinesOf(Tail(lines))
    ELSE <<Head(lines)>> \o CommandLinesOf(Tail(lines))

(***************************************************************************)
(* Inputs: the command text of one assistant response, the timeout, and    *)
(* what the child processes write.                                         *)
(***************************************************************************)
SampleLines ==
    { <<>>,                          \* blank line
      <<" ", "#">>,                  \* comment, indented
      <<"l", "s">>,                  \* safe
      <<"m", "k", "f", "s">> }       \* on the denylist

\* the texts of 1..MaxLines sample lines
SampleTexts ==
    {Join(ls) : ls \in UNION {[1..n -> SampleLines] : n \in 1..MaxLines}}

\* the characters of the texts that filter_commands is applied to alone;
\* the line :{: matches the fourth pattern of the denylist
FilterChars == {"\n", " ", "#", ":", "{", "l"}

FilterTexts ==
    SampleTexts \cup UNION {[1..n -> FilterChars] : n \in 0..MaxTextLen}

\* the gaps between the words of a command line: none, or white space
Gaps == {<<>>, <<" ">>, <<" ", " ">>, <<"\t">>}

\* command lines around the first pattern: rm, -rf and a target
RmLines ==
    {rm \o a \o <<"-", "r", "f">> \o b \o t :
        rm \in {<<"r", "m">>, <<"R", "M">>}, a \in Gaps, b \in Gaps, t \in {<<"/">>, <<"~">>, <<"x">>}}

\* around the second and the third pattern
MkfsLines ==
    {pre \o w : pre \in {<<>>, <<"e", "c", "h", "o", " ">>}, w \in {<<"m", "k", "f", "s">>, <<"M", "k", "F", "s">>, <<"m", "k", "f">>}}

DdLines ==
    {<<"d", "d">> \o a \o dev : a \in Gaps, dev \in {<<"i", "f", "=", "/", "d", "e", "v", "/", "z", "e", "r", "o">>, <<"i", "f", "=", "/", "d", "e", "v", "/", "n", "u", "l", "l">>}}

\* around the fourth pattern
ForkLines ==
    {<<":", "(", ")", "{", ":", "|", ":", "&", "}", ";", ":">>, <<":", "(", ")", "{", " ", ":", "|", ":", "&", " ", "}", ";", ":">>, <<":", "{", ":">>, <<":", "&", "}", ";", ":">>, <<":">>}

\* around the fifth pattern: chmod, -R, 777 and a target
ChmodLines ==
    {<<"c", "h", "m", "o", "d">> \o a \o r \o b \o m \o c \o t :
        a \in {<<>>, <<" ">>}, r \in {<<"-", "R">>, <<"-", "r">>}, b \in {<<>>, <<" ">>},
        m \in {<<"7", "7", "7">>, <<"7", "5", "5">>}, c \in {<<>>, <<" ">>}, t \in {<<"/">>, <<"~">>, <<"x">>}}

\* around the sixth and the seventh pattern: a download piped into a shell
PipeLines ==
    {get \o url \o a \o <<"|">> \o b \o sh :
        get \in {<<"w", "g", "e", "t">>, <<"C", "U", "R", "L">>, <<"g", "e", "t">>}, url \in {<<>>, <<"x">>, <<" ">>},
        a \in Gaps, b \in Gaps, sh \in {<<"b", "a", "s", "h">>, <<"B", "a", "s", "h">>, <<"s", "h">>}}

\* the command lines the spec names as safe
HarmlessLines ==
    {<<"l", "s", " ", "-", "l", "a">>, <<"e", "c", "h", "o", " ", "h", "e", "l", "l", "o">>, <<"g", "i", "t", " ", "s", "t", "a", "t", "u", "s">>}

\* texts with a colon: the two alternatives of the fourth pattern, the fork
\* bomb written without and with blanks, and colons in other company
ColonCores ==
    {<<":">>, <<":", ":">>, <<":", "{", ":">>, <<":", "&", "}", ";", ":">>,
     <<":", "(", ")", "{", ":", "|", ":", "&", "}", ";", ":">>,
     <<":", "(", ")", "{", " ", ":", "|", ":", "&", " ", "}", ";", ":">>,
     <<"a", ":", "b">>, <<":", "{", " ", ":">>, <<":", "&", "}", ":">>}

\* command lines that contain a colon
ColonLines ==
    {pre \o core \o post :
        pre \in {<<>>, <<"e", "c", "h", "o", " ">>, <<"x">>},
        core \in ColonCores,
        post \in {<<>>, <<"y">>, <<" ", "#">>}}

\* the command lines handed to is_safe_command alone
SafetyLines ==
    RmLines \cup MkfsLines \cup DdLines \cup ForkLines \cup ChmodLines
        \cup PipeLines \cup HarmlessLines

\* the timeouts handed to execute_commands: each lets the clock exceed it
Timeouts == 0..(MaxTime - 1)

\* the exit codes of the child processes: success and failure
ExitCodes == {0, 1}

\* the k-th line a child writes to stdout, to stderr
OutLine(k) == <<"o", DigitChar(k), "\n">>
ErrLine(k) == <<"e", DigitChar(k), "\n">>

\* stands for a byte that is no valid UTF-8 (0xff, say): line 17 decodes
\* every line with line.decode('utf-8'), which raises on such a byte
InvalidByte == "?"

\* a line a child writes that cannot be decoded
BadLine == <<InvalidByte, "\n">>

\* line 17: line.decode('utf-8') returns (the text of the line) exactly
\* when no byte of the line is invalid; otherwise it raises
Decodable(line) == \A k \in 1..Len(line) : line[k] # InvalidByte

(***************************************************************************)
(* State.                                                                  *)
(***************************************************************************)
VARIABLES
    commands,           \* main.py: the command text extracted from the response
    timeout,            \* execute_commands: its argument timeout
    pc,                 \* position of the main thread
    filtered_commands,  \* main.py: first component of filter_commands' result
    skipped_lines,      \* main.py: second component of filter_commands' result
    command_lines,      \* execute_commands
    i,                  \* execute_commands: index of the for loop, from 0
    output_parts,       \* execute_commands
    start_time,         \* execute_commands
    now,                \* the reading of time.time()
    retval,             \* what execute_commands returned; <<>> before
    proc,               \* the child process: "none", "running", "exited"
    exitStatus,         \* the exit code the child exited with; -1 before
    returncode,         \* process.returncode; -1 stands for None
    outPipe,            \* lines written to process.stdout and not yet read
    errPipe,            \* lines written to process.stderr and not yet read
    nOut,               \* lines the child has written to stdout
    nErr,               \* lines the child has written to stderr
    descendant,         \* the pipes a background descendant of the child
                        \* holds open: "none", "stdout", "stderr", "both"
    stdout_queue,       \* execute_command_realtime
    stderr_queue,       \* execute_command_realtime
    full_output,        \* execute_command_realtime
    rdOut,              \* stdout_thread: "none", "running", "done"
    rdErr,              \* stderr_thread: "none", "running", "done"
    result,             \* what execute_command_realtime returned last
    spawned,            \* history: the command lines handed to Popen
    exitCodes,          \* history: the exit codes execute_command_realtime returned
    aborted,            \* history: "no", or why the loop was left: "timeout", "failure"
    tagged,             \* history: stderr lines taken into a transcript so far
    written,            \* history: lines written by all children so far
    verdict,            \* is_safe_command alone: "none", then "safe" or "unsafe"
    lpc,                \* run_assistant_loop: position of the main thread
    interactive,        \* args.interactive
    auto_loop,          \* args.auto_loop
    max_calls,          \* args.max_calls
    prompt,             \* run_assistant_loop
    call_number,        \* run_assistant_loop
    completed_calls,    \* run_assistant_loop
    session_id,         \* run_assistant_loop
    proceed,            \* run_assistant_loop: the answer to "Proceed? (y/n)"
    records,            \* context: the command records stored by add_command
    requests,           \* history: calls of make_openai_request
    batches             \* history: for every call of execute_commands, the
                        \* number of the request whose response it executes

vars ==
    <<commands, timeout, pc, filtered_commands, skipped_lines, command_lines,
      i, output_parts, start_time, now, retval, proc, exitStatus, returncode,
      outPipe, errPipe, nOut, nErr, descendant, stdout_queue, stderr_queue,
      full_output, rdOut, rdErr, result, spawned, exitCodes, aborted, tagged,
      written, verdict, lpc, interactive, auto_loop, max_calls, prompt,
      call_number, completed_calls, session_id, proceed, records, requests,
      batches>>

loopVars ==
    <<lpc, interactive, auto_loop, max_calls, prompt, call_number,
      completed_calls, session_id, proceed, records, requests, batches>>

callerVars ==
    <<commands, timeout, filtered_commands, skipped_lines, verdict, loopVars>>
batchVars == <<command_lines, i, output_parts, start_time, retval>>
childVars == <<proc, exitStatus, outPipe, errPipe, nOut, nErr, descendant>>
readerVars == <<rdOut, rdErr>>
queueVars == <<stdout_queue, stderr_queue>>
historyVars == <<spawned, exitCodes, aborted, tagged, written>>

\* Python's None, as the value of prompt and of proceed
None == <<"None">>

\* the sessions the context holds when run_assistant_loop is called: the
\* current one and another one
FirstSession == <<"s", "1">>
OtherSession == <<"s", "2">>

\* run_assistant_loop is not running
NoLoop ==
    /\ lpc = "off"
    /\ interactive = FALSE
    /\ auto_loop = FALSE
    /\ max_calls = 0
    /\ prompt = None
    /\ call_number = 1
    /\ completed_calls = 0
    /\ session_id = FirstSession
    /\ proceed = None
    /\ records = <<>>
    /\ requests = 0
    /\ batches = <<>>

\* no result of execute_command_realtime at hand
NoResult == [code |-> -1, output |-> <<>>]

\* the state of one call of execute_command_realtime before Popen and
\* after its result has been taken over
NoCommand ==
    /\ proc = "none"
    /\ exitStatus = -1
    /\ returncode = -1
    /\ outPipe = <<>>
    /\ errPipe = <<>>
    /\ nOut = 0
    /\ nErr = 0
    /\ descendant = "none"
    /\ stdout_queue = <<>>
    /\ stderr_queue = <<>>
    /\ full_output = <<>>
    /\ rdOut = "none"
    /\ rdErr = "none"
    /\ result = NoResult

InitRest ==
    /\ pc = "start"
    /\ filtered_commands = <<>>
    /\ skipped_lines = <<>>
    /\ command_lines = <<>>
    /\ i = 0
    /\ output_parts = <<>>
    /\ start_time = 0
    /\ now = 0
    /\ retval = <<>>
    /\ NoCommand
    /\ spawned = <<>>
    /\ exitCodes = <<>>
    /\ aborted = "no"
    /\ tagged = 0
    /\ written = 0
    /\ verdict = "none"
    /\ NoLoop

Init ==
    /\ commands \in SampleTexts
    /\ timeout \in Timeouts
    /\ InitRest

\* filter_commands alone, applied to every text of FilterTexts
InitFilter ==
    /\ commands \in FilterTexts
    /\ timeout = 0
    /\ InitRest

\* is_safe_command alone, applied to every line of SafetyLines
InitSafe ==
    /\ commands \in SafetyLines
    /\ timeout = 0
    /\ InitRest

(***************************************************************************)
(* The caller, as in run_assistant_loop: the command text is filtered and  *)
(* the filtered text is executed.                                          *)
(***************************************************************************)
\* main.py line 328: filtered_commands, skipped_lines = filter_commands(commands)
FilterCommands ==
    /\ pc = "start"
    /\ filtered_commands' = filter_commands(commands).filtered
    /\ skipped_lines' = filter_commands(commands).skipped
    /\ pc' = "exec_entry"
    /\ UNCHANGED <<commands, timeout, verdict, loopVars, batchVars, now,
                   childVars, returncode, readerVars, queueVars, full_output,
                   result, historyVars>>

(***************************************************************************)
(* execute_commands, called as execute_commands(filtered_commands, timeout)*)
(***************************************************************************)
\* mutant: only the empty text returns early, not the blank one
ExecEntryNoStrip ==
    /\ pc = "exec_entry"
    /\ IF filtered_commands = <<>>
       THEN /\ retval' = NoCommandsText
            /\ pc' = "done"
            /\ UNCHANGED <<command_lines, output_parts, start_time>>
       ELSE /\ command_lines' = CommandLinesOf(Split(filtered_commands))
            /\ output_parts' = <<>>
            /\ start_time' = now
            /\ pc' = "for"
            /\ UNCHANGED retval
    /\ UNCHANGED <<callerVars, i, now, childVars, returncode, readerVars,
                   queueVars, full_output, result, historyVars>>

\* lines 105-113: the early return, or the set-up of the batch
ExecEntry ==
    /\ pc = "exec_entry"
    /\ IF Strip(filtered_commands) = <<>>
       THEN /\ retval' = NoCommandsText
            /\ pc' = "done"
            /\ UNCHANGED <<command_lines, output_parts, start_time>>
       ELSE /\ command_lines' = CommandLinesOf(Split(filtered_commands))
            /\ output_parts' = <<>>
            /\ start_time' = now
            /\ pc' = "for"
            /\ UNCHANGED retval
    /\ UNCHANGED <<callerVars, i, now, childVars, returncode, readerVars,
                   queueVars, full_output, result, historyVars>>

\* mutant: the budget counts as exceeded when it is just used up
TimedOutAtEqual == now - start_time >= timeout

\* mutant: the budget counts as exceeded a second late
TimedOutLate == now - start_time > timeout + 1

\* line 117: "time.time() - start_time > timeout"
TimedOut == now - start_time > timeout

\* lines 115-119: the head of the for loop and the check for timeout
ForStep ==
    /\ pc = "for"
    /\ IF i >= Len(command_lines)
       THEN /\ pc' = "summary"
            /\ UNCHANGED <<output_parts, aborted>>
       ELSE IF TimedOut
       THEN /\ output_parts' = Append(output_parts, TimeoutNotice(timeout))
            /\ aborted' = "timeout"
            /\ pc' = "summary"
       ELSE /\ pc' = "popen"
            /\ UNCHANGED <<output_parts, aborted>>
    /\ UNCHANGED <<callerVars, command_lines, i, start_time, retval, now,
                   childVars, returncode, readerVars, queueVars, full_output,
                   result, spawned, exitCodes, tagged, written>>

\* the locals of the finished call of execute_command_realtime are gone
ForgetCommand ==
    /\ proc' = "none"
    /\ exitStatus' = -1
    /\ returncode' = -1
    /\ outPipe' = <<>>
    /\ errPipe' = <<>>
    /\ nOut' = 0
    /\ nErr' = 0
    /\ descendant' = "none"
    /\ stdout_queue' = <<>>
    /\ stderr_queue' = <<>>
    /\ full_output' = <<>>
    /\ rdOut' = "none"
    /\ rdErr' = "none"
    /\ result' = NoResult

\* mutant: a failed command is started once more
RecordResultRetries ==
    /\ pc = "record"
    /\ LET exit_code == result.code
           cmd_output == result.output
           recorded == output_parts
               \o <<CommandHeader(i + 1, command_lines[i + 1]), cmd_output>>
       IN  IF exit_code # 0
           THEN /\ output_parts' = output_parts
                /\ pc' = "popen"
                /\ UNCHANGED <<i, aborted>>
           ELSE /\ output_parts' = recorded
                /\ pc' = "for"
                /\ i' = i + 1
                /\ UNCHANGED aborted
    /\ ForgetCommand
    /\ UNCHANGED <<callerVars, command_lines, start_time, retval, now,
                   spawned, exitCodes, tagged, written>>

\* mutant: the failure notice is appended but the loop goes on
RecordResultGoesOn ==
    /\ pc = "record"
    /\ LET exit_code == result.code
           cmd_output == result.output
           recorded == output_parts
               \o <<CommandHeader(i + 1, command_lines[i + 1]), cmd_output>>
       IN  IF exit_code # 0
           THEN /\ output_parts' = Append(recorded, FailureNotice(exit_code))
                /\ aborted' = "failure"
                /\ pc' = "for"
                /\ i' = i + 1
           ELSE /\ output_parts' = recorded
                /\ pc' = "for"
                /\ i' = i + 1
                /\ UNCHANGED aborted
    /\ ForgetCommand
    /\ UNCHANGED <<callerVars, command_lines, start_time, retval, now,
                   spawned, exitCodes, tagged, written>>

\* lines 122-129: the result of execute_command_realtime is taken over:
\* header, output, and the failure notice that ends the loop
RecordResult ==
    /\ pc = "record"
    /\ LET exit_code == result.code
           cmd_output == result.output
           recorded == output_parts
               \o <<CommandHeader(i + 1, command_lines[i + 1]), cmd_output>>
       IN  IF exit_code # 0
           THEN /\ output_parts' = Append(recorded, FailureNotice(exit_code))
                /\ aborted' = "failure"
                /\ pc' = "summary"
                /\ UNCHANGED i
           ELSE /\ output_parts' = recorded
                /\ pc' = "for"
                /\ i' = i + 1
                /\ UNCHANGED aborted
    /\ ForgetCommand
    /\ UNCHANGED <<callerVars, command_lines, start_time, retval, now,
                   spawned, exitCodes, tagged, written>>

\* lines 131-134
Summary ==
    /\ pc = "summary"
    /\ LET execution_time == now - start_time
       IN  output_parts' = Append(output_parts, SummaryLine(execution_time))
    /\ retval' = Join(output_parts')
    /\ pc' = "done"
    /\ UNCHANGED <<callerVars, command_lines, i, start_time, now, childVars,
                   returncode, readerVars, queueVars, full_output, result,
                   historyVars>>

\* time passes: between two commands, before the summary, and while the
\* polling loop sleeps
Tick ==
    /\ pc \in {"for", "sleep", "summary"}
    /\ now < MaxTime
    /\ now' = now + 1
    /\ UNCHANGED <<callerVars, batchVars, pc, childVars, returncode,
                   readerVars, queueVars, full_output, result, historyVars>>

(***************************************************************************)
(* execute_command_realtime: the main thread                               *)
(***************************************************************************)
\* mutant: the child is started and not waited for
StartCommandDetached ==
    /\ pc = "popen"
    /\ proc' = "running"
    /\ rdOut' = "running"
    /\ rdErr' = "running"
    /\ spawned' = Append(spawned, command_lines[i + 1])
    /\ result' = [code |-> 0, output |-> <<>>]
    /\ exitCodes' = Append(exitCodes, 0)
    /\ pc' = "record"
    /\ UNCHANGED <<callerVars, batchVars, now, exitStatus, returncode,
                   outPipe, errPipe, nOut, nErr, descendant, queueVars,
                   full_output,
                   aborted, tagged, written>>

\* lines 32-60: Popen, the two queues, the two reader threads, full_output
StartCommand ==
    /\ pc = "popen"
    /\ proc' = "running"
    /\ rdOut' = "running"
    /\ rdErr' = "running"
    /\ spawned' = Append(spawned, command_lines[i + 1])
    /\ pc' = "poll"
    /\ UNCHANGED <<callerVars, batchVars, now, exitStatus, returncode,
                   outPipe, errPipe, nOut, nErr, descendant, queueVars,
                   full_output,
                   result, exitCodes, aborted, tagged, written>>

\* line 36: Popen raises (OSError when the shell cannot be started or the
\* fork fails, ValueError for a null byte in the command); nothing in
\* execute_command_realtime, execute_commands or run_assistant_loop catches
\* it, so execute_commands is left by the exception and returns nothing
PopenRaises ==
    /\ pc = "popen"
    /\ pc' = "raised"
    /\ UNCHANGED <<callerVars, batchVars, now, childVars, returncode,
                   readerVars, queueVars, full_output, result, historyVars>>

\* mutant: a child still running when the budget is used up is killed
LoopPollKills ==
    /\ pc = "poll"
    /\ IF proc = "exited"
       THEN /\ returncode' = exitStatus
            /\ pc' = "chk_out"
            /\ UNCHANGED <<proc, exitStatus>>
       ELSE IF TimedOut
       THEN /\ proc' = "exited"
            /\ exitStatus' = 1
            /\ returncode' = 1
            /\ pc' = "chk_out"
       ELSE /\ pc' = "get_out"
            /\ UNCHANGED <<returncode, proc, exitStatus>>
    /\ UNCHANGED <<callerVars, batchVars, now, outPipe, errPipe, nOut, nErr,
                   descendant, readerVars, queueVars, full_output, result, historyVars>>

\* line 65, first conjunct: process.poll() is not None
LoopPoll ==
    /\ pc = "poll"
    /\ IF proc = "exited"
       THEN /\ returncode' = exitStatus
            /\ pc' = "chk_out"
       ELSE /\ pc' = "get_out"
            /\ UNCHANGED returncode
    /\ UNCHANGED <<callerVars, batchVars, now, childVars, readerVars,
                   queueVars, full_output, result, historyVars>>

\* mutant: the queue of stdout is not looked at
LoopChkOutBlind ==
    /\ pc = "chk_out"
    /\ pc' = "chk_err"
    /\ UNCHANGED <<callerVars, batchVars, now, childVars, returncode,
                   readerVars, queueVars, full_output, result, historyVars>>

\* line 65, second conjunct: stdout_queue.empty()
LoopChkOut ==
    /\ pc = "chk_out"
    /\ pc' = IF stdout_queue = <<>> THEN "chk_err" ELSE "get_out"
    /\ UNCHANGED <<callerVars, batchVars, now, childVars, returncode,
                   readerVars, queueVars, full_output, result, historyVars>>

\* line 65, third conjunct: stderr_queue.empty(), and the break of line 66
LoopChkErr ==
    /\ pc = "chk_err"
    /\ pc' = IF stderr_queue = <<>> THEN "join" ELSE "get_out"
    /\ UNCHANGED <<callerVars, batchVars, now, childVars, returncode,
                   readerVars, queueVars, full_output, result, historyVars>>

\* mutant: the line enqueued last is taken first
GetOutNewest ==
    /\ pc = "get_out"
    /\ IF stdout_queue # <<>>
       THEN /\ full_output' =
                   Append(full_output, stdout_queue[Len(stdout_queue)])
            /\ stdout_queue' = SubSeq(stdout_queue, 1, Len(stdout_queue) - 1)
       ELSE UNCHANGED <<full_output, stdout_queue>>
    /\ pc' = "get_err"
    /\ UNCHANGED <<callerVars, batchVars, now, childVars, returncode,
                   readerVars, stderr_queue, result, historyVars>>

\* lines 69-75: at most one line of stdout per pass
GetOut ==
    /\ pc = "get_out"
    /\ IF stdout_queue # <<>>
       THEN /\ full_output' = Append(full_output, Head(stdout_queue))
            /\ stdout_queue' = Tail(stdout_queue)
       ELSE UNCHANGED <<full_output, stdout_queue>>
    /\ pc' = "get_err"
    /\ UNCHANGED <<callerVars, batchVars, now, childVars, returncode,
                   readerVars, stderr_queue, result, historyVars>>

\* lines 78-84: at most one line of stderr per pass, tagged
GetErr ==
    /\ pc = "get_err"
    /\ IF stderr_queue # <<>>
       THEN /\ full_output' = Append(full_output, ErrorTagged(Head(stderr_queue)))
            /\ stderr_queue' = Tail(stderr_queue)
            /\ tagged' = tagged + 1
       ELSE UNCHANGED <<full_output, stderr_queue, tagged>>
    /\ pc' = "sleep"
    /\ UNCHANGED <<callerVars, batchVars, now, childVars, returncode,
                   readerVars, stdout_queue, result, spawned, exitCodes, aborted,
                   written>>

\* line 86
Sleep ==
    /\ pc = "sleep"
    /\ pc' = "poll"
    /\ UNCHANGED <<callerVars, batchVars, now, childVars, returncode,
                   readerVars, queueVars, full_output, result, historyVars>>

\* mutant: only the reader of stdout is joined
JoinThreadsStdoutOnly ==
    /\ pc = "join"
    /\ rdOut = "done"
    /\ result' = [code |-> returncode, output |-> Concat(full_output)]
    /\ exitCodes' = Append(exitCodes, returncode)
    /\ pc' = "record"
    /\ UNCHANGED <<callerVars, batchVars, now, childVars, returncode,
                   readerVars, queueVars, full_output, spawned, aborted, tagged,
                   written>>

\* lines 89-92: both joins and the return
JoinThreads ==
    /\ pc = "join"
    /\ rdOut = "done"
    /\ rdErr = "done"
    /\ result' = [code |-> returncode, output |-> Concat(full_output)]
    /\ exitCodes' = Append(exitCodes, returncode)
    /\ pc' = "record"
    /\ UNCHANGED <<callerVars, batchVars, now, childVars, returncode,
                   readerVars, queueVars, full_output, spawned, aborted, tagged,
                   written>>

(***************************************************************************)
(* read_output: the two reader threads                                     *)
(***************************************************************************)
\* readline returns b'' on a pipe when nothing is left to read and every
\* write end is closed: the child has exited and no descendant holds one
OutAtEOF ==
    outPipe = <<>> /\ proc = "exited" /\ descendant \notin {"stdout", "both"}

ErrAtEOF ==
    errPipe = <<>> /\ proc = "exited" /\ descendant \notin {"stderr", "both"}

\* mutant: the queue holds one line at most (Queue(maxsize=1)) and put
\* blocks while it is full
ReadOutBounded ==
    /\ rdOut = "running"
    /\ outPipe # <<>>
    /\ Decodable(Head(outPipe))
    /\ Len(stdout_queue) < 1
    /\ stdout_queue' = Append(stdout_queue, Head(outPipe))
    /\ outPipe' = Tail(outPipe)
    /\ UNCHANGED <<callerVars, batchVars, pc, now, proc, exitStatus,
                   returncode, errPipe, nOut, nErr, descendant, readerVars,
                   stderr_queue, full_output, result, historyVars>>

\* lines 16-17 for process.stdout: one line read, decoded and put on the
\* queue; the queue is Queue() (lines 46-47), without a maximal size, so
\* put does not wait
ReadOut ==
    /\ rdOut = "running"
    /\ outPipe # <<>>
    /\ Decodable(Head(outPipe))
    /\ stdout_queue' = Append(stdout_queue, Head(outPipe))
    /\ outPipe' = Tail(outPipe)
    /\ UNCHANGED <<callerVars, batchVars, pc, now, proc, exitStatus,
                   returncode, errPipe, nOut, nErr, descendant, readerVars,
                   stderr_queue,
                   full_output, result, historyVars>>

\* lines 16-17 for process.stdout: decode raises UnicodeDecodeError; the
\* exception ends the thread (nothing catches it), the line is gone, the
\* pipe is not closed and nothing reads it any more
ReadOutRaises ==
    /\ rdOut = "running"
    /\ outPipe # <<>>
    /\ ~Decodable(Head(outPipe))
    /\ outPipe' = Tail(outPipe)
    /\ rdOut' = "done"
    /\ UNCHANGED <<callerVars, batchVars, pc, now, proc, exitStatus,
                   returncode, errPipe, nOut, nErr, descendant, rdErr,
                   queueVars, full_output, result, historyVars>>

\* lines 16-18 for process.stdout: readline returns b'' at end of stream
ReadOutEOF ==
    /\ rdOut = "running"
    /\ OutAtEOF
    /\ rdOut' = "done"
    /\ UNCHANGED <<callerVars, batchVars, pc, now, childVars, returncode,
                   rdErr, queueVars, full_output, result, historyVars>>

\* lines 16-17 for process.stderr
ReadErr ==
    /\ rdErr = "running"
    /\ errPipe # <<>>
    /\ Decodable(Head(errPipe))
    /\ stderr_queue' = Append(stderr_queue, Head(errPipe))
    /\ errPipe' = Tail(errPipe)
    /\ UNCHANGED <<callerVars, batchVars, pc, now, proc, exitStatus,
                   returncode, outPipe, nOut, nErr, descendant, readerVars,
                   stdout_queue,
                   full_output, result, historyVars>>

\* lines 16-17 for process.stderr: decode raises
ReadErrRaises ==
    /\ rdErr = "running"
    /\ errPipe # <<>>
    /\ ~Decodable(Head(errPipe))
    /\ errPipe' = Tail(errPipe)
    /\ rdErr' = "done"
    /\ UNCHANGED <<callerVars, batchVars, pc, now, proc, exitStatus,
                   returncode, outPipe, nOut, nErr, descendant, rdOut,
                   queueVars, full_output, result, historyVars>>

\* lines 16-18 for process.stderr
ReadErrEOF ==
    /\ rdErr = "running"
    /\ ErrAtEOF
    /\ rdErr' = "done"
    /\ UNCHANGED <<callerVars, batchVars, pc, now, childVars, returncode,
                   rdOut, queueVars, full_output, result, historyVars>>

(***************************************************************************)
(* The child process started by Popen.                                     *)
(***************************************************************************)
ChildWriteOut ==
    /\ proc = "running"
    /\ written < MaxWritten
    /\ outPipe' = Append(outPipe, OutLine(nOut + 1))
    /\ nOut' = nOut + 1
    /\ written' = written + 1
    /\ UNCHANGED <<callerVars, batchVars, pc, now, proc, exitStatus,
                   returncode, errPipe, nErr, descendant, readerVars, queueVars,
                   full_output, result, spawned, exitCodes,
                   aborted, tagged>>

ChildWriteErr ==
    /\ proc = "running"
    /\ written < MaxWritten
    /\ errPipe' = Append(errPipe, ErrLine(nErr + 1))
    /\ nErr' = nErr + 1
    /\ written' = written + 1
    /\ UNCHANGED <<callerVars, batchVars, pc, now, proc, exitStatus,
                   returncode, outPipe, nOut, descendant, readerVars, queueVars,
                   full_output, result, spawned, exitCodes,
                   aborted, tagged>>

\* the child writes a line to stdout that is no valid UTF-8
ChildWriteOutBad ==
    /\ proc = "running"
    /\ written < MaxWritten
    /\ outPipe' = Append(outPipe, BadLine)
    /\ written' = written + 1
    /\ UNCHANGED <<callerVars, batchVars, pc, now, proc, exitStatus,
                   returncode, errPipe, nOut, nErr, descendant, readerVars,
                   queueVars, full_output, result, spawned, exitCodes,
                   aborted, tagged>>

\* the child writes a line to stderr that is no valid UTF-8
ChildWriteErrBad ==
    /\ proc = "running"
    /\ written < MaxWritten
    /\ errPipe' = Append(errPipe, BadLine)
    /\ written' = written + 1
    /\ UNCHANGED <<callerVars, batchVars, pc, now, proc, exitStatus,
                   returncode, outPipe, nOut, nErr, descendant, readerVars,
                   queueVars, full_output, result, spawned, exitCodes,
                   aborted, tagged>>

\* the pipes a descendant left behind can hold open
HeldPipes == {"stdout", "stderr", "both"}

\* the child exits and leaves a descendant in the background ("cmd &" under
\* shell=True, line 38) that has inherited the write end of one pipe or of
\* both: the pipes it holds do not reach end of stream
ChildExitLeavesDescendant ==
    /\ proc = "running"
    /\ exitStatus' \in ExitCodes
    /\ proc' = "exited"
    /\ descendant' \in HeldPipes
    /\ UNCHANGED <<callerVars, batchVars, pc, now, returncode, outPipe,
                   errPipe, nOut, nErr, readerVars, queueVars, full_output,
                   result, historyVars>>

\* the descendant exits, or closes the pipes it held
DescendantExits ==
    /\ descendant \in HeldPipes
    /\ descendant' = "none"
    /\ UNCHANGED <<callerVars, batchVars, pc, now, proc, exitStatus,
                   returncode, outPipe, errPipe, nOut, nErr, readerVars,
                   queueVars, full_output, result, historyVars>>

\* the child exits and leaves no descendant; its ends of both pipes are
\* closed
ChildExit ==
    /\ proc = "running"
    /\ exitStatus' \in ExitCodes
    /\ proc' = "exited"
    /\ UNCHANGED <<callerVars, batchVars, pc, now, returncode, outPipe,
                   errPipe, nOut, nErr, descendant, readerVars, queueVars,
                   full_output, result, historyVars>>

Next ==
    \/ FilterCommands
    \/ ExecEntry
    \/ ForStep
    \/ StartCommand
    \/ PopenRaises
    \/ LoopPoll
    \/ LoopChkOut
    \/ LoopChkErr
    \/ GetOut
    \/ GetErr
    \/ Sleep
    \/ JoinThreads
    \/ RecordResult
    \/ Summary
    \/ ReadOut
    \/ ReadOutEOF
    \/ ReadErr
    \/ ReadErrEOF
    \/ ChildWriteOut
    \/ ChildWriteErr
    \/ ChildExit
    \/ Tick

Spec == Init /\ [][Next]_vars

\* the steps of the main thread
MainThread ==
    \/ FilterCommands
    \/ ExecEntry
    \/ ForStep
    \/ StartCommand
    \/ PopenRaises
    \/ LoopPoll
    \/ LoopChkOut
    \/ LoopChkErr
    \/ GetOut
    \/ GetErr
    \/ Sleep
    \/ JoinThreads
    \/ RecordResult
    \/ Summary

\* the main thread and the two reader threads keep running when they can
\* (threads of one process under the scheduler), and every child exits
\* sooner or later (the proviso of the claim about termination)
Fairness ==
    /\ WF_vars(MainThread)
    /\ WF_vars(ReadOut \/ ReadOutEOF)
    /\ WF_vars(ReadErr \/ ReadErrEOF)
    /\ WF_vars(ChildExit)

\* the batches whose termination is checked: the texts of one or two
\* sample lines, with every timeout
InitFair ==
    /\ commands \in {Join(ls) : ls \in [{1} -> SampleLines] \cup [{1, 2} -> SampleLines]}
    /\ timeout \in Timeouts
    /\ InitRest

SpecFair == InitFair /\ [][Next]_vars /\ Fairness

\* the engine with children that may write lines that cannot be decoded
\* and may leave a descendant holding their pipes
NextStreams ==
    \/ Next
    \/ ChildWriteOutBad
    \/ ChildWriteErrBad
    \/ ChildExitLeavesDescendant
    \/ DescendantExits
    \/ ReadOutRaises
    \/ ReadErrRaises

\* as Fairness; a reader thread that can raise does, a child exits one way
\* or the other, and a descendant may hold its pipes for ever
FairnessStreams ==
    /\ WF_vars(MainThread)
    /\ WF_vars(ReadOut \/ ReadOutEOF \/ ReadOutRaises)
    /\ WF_vars(ReadErr \/ ReadErrEOF \/ ReadErrRaises)
    /\ WF_vars(ChildExit \/ ChildExitLeavesDescendant)

SpecStreams == InitFair /\ [][NextStreams]_vars /\ FairnessStreams

SpecFilter == InitFilter /\ [][FilterCommands]_vars

\* filter_commands called once more, on the text its first call returned
Refilter ==
    /\ pc = "exec_entry"
    /\ commands' = filtered_commands
    /\ filtered_commands' = filter_commands(filtered_commands).filtered
    /\ skipped_lines' = filter_commands(filtered_commands).skipped
    /\ pc' = "refiltered"
    /\ UNCHANGED <<timeout, verdict, loopVars, batchVars, now, childVars,
                   returncode, readerVars, queueVars, full_output, result,
                   historyVars>>

\* filter_commands applied to every text of FilterTexts and then to its
\* own result
SpecRefilter == InitFilter /\ [][FilterCommands \/ Refilter]_vars

\* a call of is_safe_command(commands) by itself
IsSafeCommand ==
    /\ pc = "start"
    /\ verdict' = IF is_safe_command(commands) THEN "safe" ELSE "unsafe"
    /\ pc' = "done"
    /\ UNCHANGED <<commands, timeout, filtered_commands, skipped_lines,
                   loopVars, batchVars, now, childVars, returncode, readerVars,
                   queueVars, full_output, result, historyVars>>

SpecSafe == InitSafe /\ [][IsSafeCommand]_vars

\* is_safe_command alone, applied to every line of ColonLines
InitColon ==
    /\ commands \in ColonLines
    /\ timeout = 0
    /\ InitRest

SpecColon == InitColon /\ [][IsSafeCommand]_vars

(***************************************************************************)
(* main.py: handle_special_command, extract_commands and                   *)
(* run_assistant_loop, which calls execute_commands for every response     *)
(* that holds commands.                                                    *)
(***************************************************************************)
\* str.lower()
LowerText(s) == [k \in 1..Len(s) |-> Lower(s[k])]

\* line 94 of command_executor.py: "def execute_commands(commands,
\* timeout=300)"; run_assistant_loop calls it without a timeout (line 345)
DefaultTimeout == 300

\* the second component of the pair handle_special_command returns for
\* "reset"
ResetWord == <<"r", "e", "s", "e", "t">>

\* the words handle_special_command answers with True
HandledWords == {<<"h", "e", "l", "p">>, <<"c", "l", "e", "a", "r">>, <<"s", "e", "s", "s", "i", "o", "n", "s">>, <<"h", "i", "s", "t", "o", "r", "y">>, <<"c", "o", "n", "t", "e", "x", "t">>}

\* what handle_special_command returns: True, False or a pair (False, arg);
\* kind "exit" stands for sys.exit(0)
SpecialResult(kind, arg) == [kind |-> kind, arg |-> arg]

\* lines 179-235; session_ids are the sessions the context knows
handle_special_command(text, session_ids) ==
    LET command == LowerText(Strip(text))
        rest == Strip(SubSeq(command, 8, Len(command)))
    IN  IF command \in {<<"e", "x", "i", "t">>, <<"q", "u", "i", "t">>} THEN SpecialResult("exit", <<>>)
        ELSE IF command \in HandledWords THEN SpecialResult("True", <<>>)
        ELSE IF StartsWith(command, <<"s", "w", "i", "t", "c", "h", " ">>)
        THEN IF rest \in session_ids THEN SpecialResult("tuple", rest)
             ELSE SpecialResult("True", <<>>)
        ELSE IF command = ResetWord THEN SpecialResult("tuple", ResetWord)
        ELSE IF StartsWith(command, <<"e", "x", "p", "o", "r", "t", " ">>) THEN SpecialResult("True", <<>>)
        ELSE SpecialResult("False", <<>>)

command_start_tag == <<"<", "c", "o", "m", "m", "a", "n", "d", ">">>
command_end_tag == <<"<", "/", "c", "o", "m", "m", "a", "n", "d", ">">>

\* lines 167-177: the text between the first opening tag and the first
\* closing tag after it (".*?" with re.DOTALL), stripped; "" without a match
extract_commands(response_text) ==
    LET a == FirstAt(command_start_tag, response_text)
        rest == IF a = 0 THEN <<>>
                ELSE SubSeq(response_text, a + Len(command_start_tag),
                            Len(response_text))
        b == FirstAt(command_end_tag, rest)
    IN  IF a = 0 \/ b = 0 THEN <<>> ELSE Strip(SubSeq(rest, 1, b - 1))

\* the responses of the service: without commands, with a safe command, with
\* an unsafe and a safe command, with an unsafe command only, with a blank
\* command block
ResponseTexts ==
    {<<"o", "k">>,
     command_start_tag \o <<"l", "s">> \o command_end_tag,
     <<"a">> \o command_start_tag \o <<"\n", "m", "k", "f", "s", "\n", "l", "s", "\n">> \o command_end_tag \o <<"b">>,
     command_start_tag \o <<"m", "k", "f", "s">> \o command_end_tag,
     command_start_tag \o <<" ">> \o command_end_tag}

\* input() raises instead of returning a line
EndOfInput == <<"EOFError">>
Interrupt == <<"KeyboardInterrupt">>

\* the values of args.max_calls
CallLimits == {0, 1, 2}

\* the lines the operator types at the prompt
OperatorInputs ==
    {<<"g", "o">>, <<>>, <<" ">>, <<" ", "H", "E", "L", "P">>, <<"q", "u", "i", "t">>, <<"r", "e", "s", "e", "t">>, <<"s", "w", "i", "t", "c", "h", " ", "s", "2">>, <<"s", "w", "i", "t", "c", "h", " ", "s", "9">>,
     <<"e", "x", "p", "o", "r", "t", " ", "f">>}

\* the answers the operator gives to "Proceed? (y/n)"
Answers == {<<"y">>, <<"Y">>, <<"n">>, <<>>, <<"y", "e", "s">>, <<" ", "y">>}

\* line 337: "proceed.lower() != 'y'"
\* mutant: only the answer "n" stops the execution
DeclinedOnlyN(answer) == LowerText(answer) = <<"n">>

\* line 337: "proceed.lower() != 'y'"
Declined(answer) == LowerText(answer) # <<"y">>

\* line 339
AbortedText ==
    <<"E", "x", "e", "c", "u", "t", "i", "o", "n", " ", "a", "b", "o", "r",
      "t", "e", "d", " ", "b", "y", " ", "u", "s", "e", "r", " ", "d", "u",
      "e", " ", "t", "o", " ", "p", "o", "t", "e", "n", "t", "i", "a", "l",
      "l", "y", " ", "u", "n", "s", "a", "f", "e", " ", "c", "o", "m", "m",
      "a", "n", "d", "s", ".">>

\* the row add_command inserts (context_handler.py lines 153-182); of the
\* output the row of the model keeps whether it is the text of line 339
CommandRecord(session, command_text, output, exit_code) ==
    [session_id |-> session, command_text |-> command_text,
     aborted |-> (output = AbortedText), exit_code |-> exit_code]

\* "if not prompt"
Falsy(text) == text = None \/ text = <<>>

\* what get_sessions_list knows; the sessions made by "reset" are left out
session_ids == {FirstSession, OtherSession}

\* create_session returns the id of a new session (the time of the call);
\* one name stands for all of them
FreshSession == <<"s", "3">>

\* len(context.get_session_messages(session_id)) for the session switched
\* to: the messages table is not part of the model
MessageCounts == {2}

\* the state of execute_commands and below
engineVars ==
    <<pc, batchVars, now, childVars, returncode, readerVars, queueVars,
      full_output, result, historyVars>>

argsVars == <<interactive, auto_loop, max_calls>>

\* run_assistant_loop(args, context, session_id) is called
InitLoop ==
    /\ commands = <<>>
    /\ timeout = DefaultTimeout
    /\ pc = "idle"
    /\ filtered_commands = <<>>
    /\ skipped_lines = <<>>
    /\ command_lines = <<>>
    /\ i = 0
    /\ output_parts = <<>>
    /\ start_time = 0
    /\ now = 0
    /\ retval = <<>>
    /\ NoCommand
    /\ spawned = <<>>
    /\ exitCodes = <<>>
    /\ aborted = "no"
    /\ tagged = 0
    /\ written = 0
    /\ verdict = "none"
    /\ lpc = "top"
    /\ interactive \in BOOLEAN
    /\ auto_loop \in BOOLEAN
    /\ max_calls \in CallLimits
    /\ prompt \in {None, <<"g", "o">>}
    /\ call_number = 1
    /\ completed_calls = 0
    /\ session_id = FirstSession
    /\ proceed = None
    /\ records = <<>>
    /\ requests = 0
    /\ batches = <<>>

\* mutant: the loop goes on when the calls are just used up
LoopGoesOnInclusive == completed_calls <= max_calls

\* line 250: "while completed_calls < args.max_calls"
LoopGoesOn == completed_calls < max_calls

\* lines 250-252 and 288-290: the head of the loop
LoopTop ==
    /\ lpc = "top"
    /\ lpc' = IF ~LoopGoesOn THEN "complete"
              ELSE IF ~Falsy(prompt) THEN "request"
              ELSE IF interactive THEN "input"
              ELSE "complete"
    /\ UNCHANGED <<commands, timeout, filtered_commands, skipped_lines,
                   verdict, engineVars, argsVars, prompt, call_number,
                   completed_calls, session_id, proceed, records,
                   requests, batches>>

\* lines 253-287: a line is read from the operator and handed to
\* handle_special_command unless it is empty
ReadPrompt ==
    /\ lpc = "input"
    /\ \E line \in OperatorInputs \cup {EndOfInput, Interrupt} :
          IF line \in {EndOfInput, Interrupt}
          THEN /\ lpc' = "complete"
               /\ UNCHANGED <<prompt, call_number, session_id>>
          ELSE LET stripped == Strip(line)
                   res == handle_special_command(stripped, session_ids)
               IN  IF stripped = <<>>
                   THEN /\ prompt' = stripped
                        /\ lpc' = "request"
                        /\ UNCHANGED <<call_number, session_id>>
                   ELSE IF res.kind = "exit"
                   THEN /\ prompt' = stripped
                        /\ lpc' = "exited"
                        /\ UNCHANGED <<call_number, session_id>>
                   ELSE IF res.kind = "True"
                   THEN /\ prompt' = None
                        /\ lpc' = "top"
                        /\ UNCHANGED <<call_number, session_id>>
                   ELSE IF res.kind = "tuple" /\ res.arg = ResetWord
                   THEN /\ session_id' = FreshSession
                        /\ call_number' = 1
                        /\ prompt' = None
                        /\ lpc' = "top"
                   ELSE IF res.kind = "tuple"
                   THEN /\ session_id' = res.arg
                        /\ \E n \in MessageCounts : call_number' = n + 1
                        /\ prompt' = None
                        /\ lpc' = "top"
                   ELSE /\ prompt' = stripped
                        /\ lpc' = "request"
                        /\ UNCHANGED <<call_number, session_id>>
    /\ UNCHANGED <<commands, timeout, filtered_commands, skipped_lines,
                   verdict, engineVars, argsVars, completed_calls, proceed,
                   records, requests, batches>>

\* lines 296-315: the prompt is stored, the request is made, the commands
\* are extracted from the response and the response is stored
MakeRequest ==
    /\ lpc = "request"
    /\ \E response_text \in ResponseTexts :
          commands' = extract_commands(response_text)
    /\ requests' = requests + 1
    /\ lpc' = "commands"
    /\ UNCHANGED <<timeout, filtered_commands, skipped_lines, verdict,
                   engineVars, argsVars, prompt, call_number,
                   completed_calls, session_id, proceed, records, batches>>

\* lines 296-306: the prompt is stored and make_openai_request raises;
\* nothing in run_assistant_loop catches it
RequestRaises ==
    /\ lpc = "request"
    /\ requests' = requests + 1
    /\ lpc' = "raised"
    /\ UNCHANGED <<commands, timeout, filtered_commands, skipped_lines,
                   verdict, engineVars, argsVars, prompt, call_number,
                   completed_calls, session_id, proceed, records, batches>>

\* lines 324-335: without commands nothing is executed; otherwise the
\* commands are filtered, and in interactive mode the operator is asked when
\* a line was skipped
LoopCommands ==
    /\ lpc = "commands"
    /\ IF commands = <<>>
       THEN /\ lpc' = "count"
            /\ UNCHANGED <<filtered_commands, skipped_lines>>
       ELSE /\ filtered_commands' = filter_commands(commands).filtered
            /\ skipped_lines' = filter_commands(commands).skipped
            /\ lpc' = IF skipped_lines' # <<>> /\ interactive
                      THEN "confirm" ELSE "execute"
    /\ UNCHANGED <<commands, timeout, verdict, engineVars, argsVars, prompt,
                   call_number, completed_calls, session_id, proceed,
                   records, requests, batches>>

\* lines 336-341: the answer of the operator; anything but "y" or "Y"
\* stores the record of an aborted execution and leaves the loop
LoopConfirm ==
    /\ lpc = "confirm"
    /\ \E answer \in Answers :
          /\ proceed' = answer
          /\ IF Declined(answer)
             THEN /\ records' = Append(records,
                         CommandRecord(session_id, commands, AbortedText, 1))
                  /\ lpc' = "complete"
             ELSE /\ lpc' = "execute"
                  /\ UNCHANGED records
    /\ UNCHANGED <<commands, timeout, filtered_commands, skipped_lines,
                   verdict, engineVars, argsVars, prompt, call_number,
                   completed_calls, session_id, requests, batches>>

\* line 336: input raises EOFError or KeyboardInterrupt; this call of input
\* stands outside the try of lines 253-287
ConfirmRaises ==
    /\ lpc = "confirm"
    /\ lpc' = "raised"
    /\ UNCHANGED <<commands, timeout, filtered_commands, skipped_lines,
                   verdict, engineVars, argsVars, prompt, call_number,
                   completed_calls, session_id, proceed, records,
                   requests, batches>>

\* lines 344-345: execute_commands(filtered_commands) is called
CallExecute ==
    /\ lpc = "execute"
    /\ pc = "idle"
    /\ timeout' = DefaultTimeout
    /\ pc' = "exec_entry"
    /\ batches' = Append(batches, requests)
    /\ lpc' = "executing"
    /\ UNCHANGED <<commands, filtered_commands, skipped_lines, verdict,
                   batchVars, now, childVars, returncode, readerVars,
                   queueVars, full_output, result, historyVars, argsVars,
                   prompt, call_number, completed_calls, session_id, proceed,
                   records, requests>>

\* lines 345-352: execute_commands has returned; the exit code is read off
\* the transcript and the record is stored
AfterExecute ==
    /\ lpc = "executing"
    /\ pc = "done"
    /\ LET output == retval
           exit_code == IF Contains(output, ErrorMark) THEN 1 ELSE 0
       IN  records' = Append(records,
               CommandRecord(session_id, commands, output, exit_code))
    /\ pc' = "idle"
    /\ command_lines' = <<>>
    /\ i' = 0
    /\ output_parts' = <<>>
    /\ start_time' = 0
    /\ retval' = <<>>
    /\ spawned' = <<>>
    /\ exitCodes' = <<>>
    /\ aborted' = "no"
    /\ tagged' = 0
    /\ lpc' = "count"
    /\ UNCHANGED <<commands, timeout, filtered_commands, skipped_lines,
                   verdict, now, childVars, returncode, readerVars,
                   queueVars, full_output, result, written, argsVars, prompt,
                   call_number, completed_calls, session_id, proceed,
                   requests, batches>>

\* line 345: execute_commands was left by an exception (see PopenRaises);
\* nothing in run_assistant_loop catches it
ExecuteRaises ==
    /\ lpc = "executing"
    /\ pc = "raised"
    /\ lpc' = "raised"
    /\ UNCHANGED <<commands, timeout, filtered_commands, skipped_lines,
                   verdict, engineVars, argsVars, prompt, call_number,
                   completed_calls, session_id, proceed, records,
                   requests, batches>>

\* lines 354-374: the counters, the check of the maximum and the next
\* prompt
LoopCount ==
    /\ lpc = "count"
    /\ call_number' = call_number + 1
    /\ completed_calls' = completed_calls + 1
    /\ IF completed_calls' >= max_calls
       THEN /\ lpc' = "complete"
            /\ UNCHANGED prompt
       ELSE IF auto_loop
       THEN /\ lpc' = "top"
            /\ UNCHANGED prompt
       ELSE IF interactive
       THEN /\ lpc' = "top"
            /\ prompt' = None
       ELSE /\ lpc' = "complete"
            /\ UNCHANGED prompt
    /\ UNCHANGED <<commands, timeout, filtered_commands, skipped_lines,
                   verdict, engineVars, argsVars, session_id, proceed,
                   records, requests, batches>>

\* run_assistant_loop with execute_commands and all below it; the clock is
\* left alone: execute_commands is called with its timeout of 300 seconds,
\* which no reading of the clock up to MaxTime exceeds
NextLoop ==
    \/ LoopTop
    \/ ReadPrompt
    \/ MakeRequest
    \/ RequestRaises
    \/ LoopCommands
    \/ LoopConfirm
    \/ ConfirmRaises
    \/ CallExecute
    \/ AfterExecute
    \/ ExecuteRaises
    \/ LoopCount
    \/ ExecEntry
    \/ ForStep
    \/ StartCommand
    \/ PopenRaises
    \/ LoopPoll
    \/ LoopChkOut
    \/ LoopChkErr
    \/ GetOut
    \/ GetErr
    \/ Sleep
    \/ JoinThreads
    \/ RecordResult
    \/ Summary
    \/ ReadOut
    \/ ReadOutEOF
    \/ ReadErr
    \/ ReadErrEOF
    \/ ChildWriteOut
    \/ ChildWriteErr
    \/ ChildExit

SpecLoop == InitLoop /\ [][NextLoop]_vars

(***************************************************************************)
(* Properties.                                                             *)
(***************************************************************************)
\* the lines of a text that are neither blank nor comments
CandidateLines(text) ==
    LET lines == Split(text)
    IN  {n \in 1..Len(lines) : ~IsBlankOrComment(lines[n])}

\* the safe command lines of a raw text, in order
SafeCommandLines(text) == SelectSeq(CommandLinesOf(Split(text)), is_safe_command)

\* the positions of the main thread inside the polling loop
LoopPcs == {"poll", "chk_out", "chk_err", "get_out", "get_err", "sleep"}

\* C1: when execute_command_realtime returns, every line the child wrote to
\* stdout and every line it wrote to stderr (tagged) stands in the returned
\* transcript exactly once.
C1_EveryLineOnce ==
    pc = "record" =>
        /\ \A k \in 1..nOut : Occurrences(OutLine(k), result.output) = 1
        /\ \A k \in 1..nErr :
               Occurrences(ErrorTagged(ErrLine(k)), result.output) = 1

\* C2: once a command has returned a non-zero exit code, no further command
\* is spawned, and the failure notice naming the code follows its output in
\* the transcript.
C2_FailFast ==
    \A k \in 1..Len(exitCodes) :
        exitCodes[k] # 0 =>
            /\ Len(spawned) = k
            /\ pc \in {"record", "summary", "done"}
            /\ pc \in {"summary", "done"} =>
                   /\ aborted = "failure"
                   /\ output_parts[2 * k + 1] = FailureNotice(exitCodes[k])
            /\ pc = "done" => Contains(retval, FailureNotice(exitCodes[k]))

C2_Witness ==
    /\ pc = "done"
    /\ aborted = "failure"
    /\ Len(spawned) < Len(command_lines)

\* C3: of a filtered text only safe lines are spawned, and an unsafe line
\* does not end the batch: the spawned commands are the safe command lines of
\* the raw text from the first on, all of them unless the batch is aborted by
\* a failure or by the timeout.
C3_UnsafeNeverSpawned ==
    /\ [][spawned' # spawned =>
              /\ Len(spawned') = Len(spawned) + 1
              /\ is_safe_command(spawned'[Len(spawned')])
              /\ Len(spawned') <= Len(SafeCommandLines(commands))
              /\ spawned' = SubSeq(SafeCommandLines(commands), 1, Len(spawned'))]_vars
    /\ []((pc = "done" /\ aborted = "no") => spawned = SafeCommandLines(commands))

C3_Witness ==
    /\ pc = "done"
    /\ skipped_lines # <<>>
    /\ skipped_lines[1][1] = 1
    /\ Len(spawned) = 1

\* C10: the filtered text has as many lines as the raw text, and every blank
\* line, comment line and safe line stands unchanged at its position.
C10_LinesKept ==
    pc = "exec_entry" =>
        LET raw == Split(commands)
            kept == Split(filtered_commands)
        IN  /\ Len(kept) = Len(raw)
            /\ \A n \in 1..Len(raw) :
                   (IsBlankOrComment(raw[n]) \/ is_safe_command(raw[n]))
                       => kept[n] = raw[n]

C10_Witness ==
    /\ pc = "exec_entry"
    /\ Len(skipped_lines) = 1
    /\ Len(Split(commands)) = 2
    /\ \E n \in 1..2 : Split(commands)[n] = <<"l">>

\* C11: the skip records are the pairs (line number from 1, original line)
\* of exactly the lines that are neither blank nor comments and that
\* is_safe_command rejects, in ascending order of line number, and the
\* filtered text has at each of these positions the marker with that number
\* and that line.
C11_SkipRecords ==
    pc = "exec_entry" =>
        LET raw == Split(commands)
            kept == Split(filtered_commands)
            rejected == {n \in 1..Len(raw) :
                            /\ Strip(raw[n]) # <<>>
                            /\ Strip(raw[n])[1] # "#"
                            /\ ~is_safe_command(raw[n])}
        IN  /\ Len(skipped_lines) = Cardinality(rejected)
            /\ {skipped_lines[k][1] : k \in 1..Len(skipped_lines)} = rejected
            /\ \A k \in 1..Len(skipped_lines) :
                   /\ k > 1 => skipped_lines[k - 1][1] < skipped_lines[k][1]
                   /\ skipped_lines[k][2] = raw[skipped_lines[k][1]]
                   /\ skipped_lines[k][1] <= Len(kept)
                   /\ kept[skipped_lines[k][1]] =
                          SkipMarkerHead \o Digits(skipped_lines[k][1])
                              \o <<")", ":", " ">> \o skipped_lines[k][2]

C11_Witness ==
    /\ pc = "exec_entry"
    /\ Len(skipped_lines) = 1
    /\ skipped_lines[1][1] = 2
    /\ Len(Split(commands)) = 2
    /\ Split(commands)[1] = <<"#">>

\* the lines of SafetyLines that are written as one of the patterns of the
\* denylist describes them, in either case of the letters: the words in
\* order, white space where the pattern has \s+, something before the white
\* space where it has .+, root or home as the target
DenylistedLines ==
    {rm \o a \o <<"-", "r", "f">> \o b \o t :
        rm \in {<<"r", "m">>, <<"R", "M">>}, a \in Gaps \ {<<>>}, b \in Gaps \ {<<>>},
        t \in {<<"/">>, <<"~">>}}
    \cup {pre \o w : pre \in {<<>>, <<"e", "c", "h", "o", " ">>}, w \in {<<"m", "k", "f", "s">>, <<"M", "k", "F", "s">>}}
    \cup {<<"d", "d">> \o a \o <<"i", "f", "=", "/", "d", "e", "v", "/", "z", "e", "r", "o">> : a \in Gaps \ {<<>>}}
    \cup {<<":", "(", ")", "{", ":", "|", ":", "&", "}", ";", ":">>, <<":", "{", ":">>, <<":", "&", "}", ";", ":">>}
    \cup {<<"c", "h", "m", "o", "d">> \o <<" ">> \o r \o <<" ">> \o <<"7", "7", "7">> \o <<" ">> \o t :
             r \in {<<"-", "R">>, <<"-", "r">>}, t \in {<<"/">>, <<"~">>}}
    \cup UNION {
             {get \o url \o a \o <<"|">> \o b \o sh :
                 get \in {<<"w", "g", "e", "t">>, <<"C", "U", "R", "L">>},
                 a \in {g \in Gaps : g # <<>> /\ Len(url) + Len(g) >= 2},
                 b \in Gaps \ {<<>>},
                 sh \in {<<"b", "a", "s", "h">>, <<"B", "a", "s", "h">>}}
             : url \in {<<>>, <<"x">>, <<" ">>} }

\* C12: is_safe_command returns False exactly for the lines that match a
\* pattern of the denylist, whatever the case of the letters, and True for
\* every other line, "ls -la", "echo hello" and "git status" among them.
C12_Denylist ==
    verdict # "none" =>
        /\ verdict = "unsafe" <=> commands \in DenylistedLines
        /\ commands \in HarmlessLines => verdict = "safe"

C12_Witness ==
    /\ verdict = "unsafe"
    /\ commands = <<"R", "M", " ", " ", "-", "r", "f", " ", "~">>

\* C13: a command is spawned only when no child of the batch exists any
\* more and every command spawned before has returned its exit code, 0, and
\* its transcript to execute_commands; a child is done with only after it
\* has exited and its result has been returned.
C13_OneAtATime ==
    [][/\ spawned' # spawned =>
              /\ proc = "none"
              /\ proc' = "running"
              /\ Len(exitCodes) = Len(spawned)
              /\ \A k \in 1..Len(exitCodes) : exitCodes[k] = 0
              /\ Len(output_parts) = 2 * Len(spawned)
              /\ i = Len(spawned)
       /\ (proc # "none" /\ proc' = "none") =>
              /\ proc = "exited"
              /\ pc = "record"
              /\ result.code = exitStatus
              /\ Len(exitCodes) = Len(spawned)]_vars

C13_Witness ==
    /\ Len(spawned) = 2
    /\ proc = "running"
    /\ Len(output_parts) = 2

\* C14: execute_command_realtime returns only when both of its reader
\* threads have terminated; they stay terminated while the result is taken
\* over, and the readers alive while a command runs are the two started for
\* that command.
C14_ReadersJoined ==
    /\ [][/\ (pc = "join" /\ pc' # "join") =>
                 (pc' = "record" /\ rdOut = "done" /\ rdErr = "done")
          /\ (rdOut # "none" /\ rdOut' = "none") => rdOut = "done"
          /\ (rdErr # "none" /\ rdErr' = "none") => rdErr = "done"
          /\ (rdOut' = "running" /\ rdOut # "running") =>
                 (rdOut = "none" /\ spawned' # spawned)
          /\ (rdErr' = "running" /\ rdErr # "running") =>
                 (rdErr = "none" /\ spawned' # spawned)]_vars
    /\ [](pc = "record" => (rdOut = "done" /\ rdErr = "done"))
    /\ [](pc \in {"for", "popen", "summary", "done"} =>
              (rdOut = "none" /\ rdErr = "none"))

C14_Witness ==
    /\ pc = "record"
    /\ rdOut = "done"
    /\ rdErr = "done"
    /\ stdout_queue # <<>>
    /\ Len(spawned) = 2

\* C15: in the transcript that execute_command_realtime returns, the lines
\* of stdout that appear stand in the order the child wrote them, and so do
\* the lines of stderr; at every moment the lines of each stream collected so
\* far are the first ones the child wrote to that stream, in order.
C15_FifoPerStream ==
    /\ pc = "record" =>
           /\ \A j, k \in 1..nOut :
                  (/\ j < k
                   /\ FirstAt(OutLine(j), result.output) # 0
                   /\ FirstAt(OutLine(k), result.output) # 0)
                      => FirstAt(OutLine(j), result.output)
                             < FirstAt(OutLine(k), result.output)
           /\ \A j, k \in 1..nErr :
                  (/\ j < k
                   /\ FirstAt(ErrorTagged(ErrLine(j)), result.output) # 0
                   /\ FirstAt(ErrorTagged(ErrLine(k)), result.output) # 0)
                      => FirstAt(ErrorTagged(ErrLine(j)), result.output)
                             < FirstAt(ErrorTagged(ErrLine(k)), result.output)
    /\ LET outs == SelectSeq(full_output, LAMBDA l : l[1] = "o")
           errs == SelectSeq(full_output, LAMBDA l : l[1] = "E")
       IN  /\ Len(outs) <= nOut
           /\ Len(errs) <= nErr
           /\ \A k \in 1..Len(outs) : outs[k] = OutLine(k)
           /\ \A k \in 1..Len(errs) : errs[k] = ErrorTagged(ErrLine(k))

C15_Witness ==
    /\ pc = "record"
    /\ nOut = 2
    /\ FirstAt(OutLine(1), result.output) # 0
    /\ FirstAt(OutLine(2), result.output) # 0

\* C16: the commands executed so far are the first entries of command_lines,
\* each entry once and in list order; once a command has returned a
\* non-zero exit code or a check has found the timeout exceeded, no command
\* is executed any more.
C16_PrefixOnce ==
    /\ [](/\ Len(spawned) <= Len(command_lines)
          /\ spawned = SubSeq(command_lines, 1, Len(spawned))
          /\ Len(exitCodes) <= Len(spawned))
    /\ [][(\/ aborted # "no"
           \/ \E k \in 1..Len(exitCodes) : exitCodes[k] # 0)
              => spawned' = spawned]_vars

C16_Witness ==
    /\ pc = "done"
    /\ aborted = "failure"
    /\ Len(spawned) = 2
    /\ spawned[1] = spawned[2]
    /\ exitCodes = <<0, 1>>

\* the last element of a list
Last(parts) == parts[Len(parts)]

\* C17: a batch with at least one command comes to its end, in one of three
\* ways: every command ran and exited with code 0, and the transcript has no
\* notice; or a check found the timeout exceeded, and the timeout notice is
\* the last element but one; or a command failed, and the failure notice is
\* the last element but one.  In all three the last element of the
\* transcript is the summary line with the elapsed time.
C17_BatchEnds ==
    /\ (pc = "for" /\ command_lines # <<>>) ~> (pc = "done")
    /\ []((pc = "done" /\ command_lines # <<>>) =>
              LET n == Len(output_parts)
                  notices == {k \in 1..n :
                                 StartsWith(output_parts[k], <<"\n">> \o ErrorMark)}
              IN  /\ n >= 1
                  /\ Last(output_parts) = SummaryLine(now - start_time)
                  /\ retval = Join(output_parts)
                  /\ CASE aborted = "no" ->
                            /\ notices = {}
                            /\ Len(exitCodes) = Len(command_lines)
                            /\ \A k \in 1..Len(exitCodes) : exitCodes[k] = 0
                            /\ n = 2 * Len(command_lines) + 1
                       [] aborted = "timeout" ->
                            /\ notices = {n - 1}
                            /\ output_parts[n - 1] = TimeoutNotice(timeout)
                            /\ Len(exitCodes) < Len(command_lines)
                            /\ \A k \in 1..Len(exitCodes) : exitCodes[k] = 0
                       [] aborted = "failure" ->
                            /\ notices = {n - 1}
                            /\ exitCodes # <<>>
                            /\ Last(exitCodes) # 0
                            /\ output_parts[n - 1] = FailureNotice(Last(exitCodes)))

\* C18: when a command cannot be spawned, execute_commands raises no fault:
\* the step that fails to spawn appends a failure notice with a non-zero
\* code and leaves the loop for the summary, as for a failing command, and
\* the returned transcript ends with the summary line.
C18_SpawnFailureReported ==
    /\ [][(pc = "popen" /\ pc' # "popen" /\ spawned' = spawned) =>
              /\ pc' = "summary"
              /\ aborted' = "failure"
              /\ \E code \in 1..255 :
                     Last(output_parts') = FailureNotice(code)]_vars
    /\ [](pc # "raised")

\* C19: the transcript of a batch is the same for every scheduling: the
\* headers are those of the command lines in order, and the transcript of a
\* command whose child writes to stdout only is the lines the child wrote,
\* in order, so that two runs with the same lines written agree.
C19_SameTranscript ==
    /\ \A k \in 1..Len(exitCodes) :
           2 * k <= Len(output_parts) =>
               output_parts[2 * k - 1] = CommandHeader(k, command_lines[k])
    /\ (pc = "record" /\ nErr = 0) =>
           result.output = Concat([k \in 1..nOut |-> OutLine(k)])

\* C20: execute_command_realtime returns the exit code the child exited
\* with and a transcript made of every line of stdout as written and every
\* line of stderr behind "ERROR: ", and of nothing else.
C20_CodeAndTaggedLines ==
    pc = "record" =>
        LET lines == {full_output[k] : k \in 1..Len(full_output)}
        IN  /\ result.code = exitStatus
            /\ result.output = Concat(full_output)
            /\ lines = {OutLine(k) : k \in 1..nOut}
                           \cup {ErrorMark \o <<" ">> \o ErrLine(k) : k \in 1..nErr}

\* the text every header starts with
HeaderHead == <<"\n", "#", " ", "C", "o", "m", "m", "a", "n", "d", " ">>

\* C21: taking over the result of a command appends the header with the
\* position of the command among the command lines, counted from 1, and its
\* text, immediately followed by the transcript that was returned for it; in
\* the transcript returned for the batch the headers stand in batch order,
\* one for each command that was started and none for the others.
C21_HeaderThenTranscript ==
    /\ [][(pc = "record" /\ pc' # "record") =>
              /\ Len(output_parts') >= Len(output_parts) + 2
              /\ output_parts'[Len(output_parts) + 1] =
                     HeaderHead \o Digits(Len(spawned)) \o <<":", " ">>
                         \o command_lines[Len(spawned)]
              /\ output_parts'[Len(output_parts) + 2] = result.output]_vars
    /\ []((pc = "done" /\ command_lines # <<>>) =>
              /\ {k \in 1..Len(output_parts) :
                      StartsWith(output_parts[k], HeaderHead)}
                     = {2 * k - 1 : k \in 1..Len(spawned)}
              /\ \A k \in 1..Len(spawned) :
                     output_parts[2 * k - 1] =
                         HeaderHead \o Digits(k) \o <<":", " ">> \o command_lines[k]
              /\ retval = Join(output_parts))

C21_Witness ==
    /\ pc = "done"
    /\ Len(spawned) = 1
    /\ Len(command_lines) = 2
    /\ Len(output_parts) = 4
    /\ output_parts[2] # <<>>

\* C22: the polling loop is left only by the step that finds the queue of
\* stderr empty, in a pass that before found the child terminated and then
\* the queue of stdout empty; a pass that finds the child running or a
\* queue not empty goes on to take lines and sleep.
C22_ExitOnlyWhenDoneAndEmpty ==
    [][/\ (pc \in LoopPcs /\ pc' \notin LoopPcs) =>
              /\ pc = "chk_err"
              /\ stderr_queue = <<>>
              /\ proc = "exited"
              /\ returncode = exitStatus
              /\ pc' = "join"
       /\ (pc' = "chk_err" /\ pc # "chk_err") =>
              (pc = "chk_out" /\ stdout_queue = <<>> /\ proc = "exited")
       /\ (pc' = "chk_out" /\ pc # "chk_out") =>
              (pc = "poll" /\ proc = "exited")
       /\ (pc = "poll" /\ proc = "running" /\ pc' # "poll") => pc' = "get_out"
       /\ (pc = "chk_out" /\ stdout_queue # <<>> /\ pc' # "chk_out") =>
              pc' = "get_out"
       /\ (pc = "chk_err" /\ stderr_queue # <<>> /\ pc' # "chk_err") =>
              pc' = "get_out"]_vars

C22_Witness ==
    /\ pc = "join"
    /\ proc = "exited"
    /\ tagged > 0
    /\ Len(full_output) = 2

\* C23: in a pass of the polling loop the step that reads the queue of
\* stdout takes every line that is in the queue into the transcript, and so
\* does the step that reads the queue of stderr, before the pass sleeps.
C23_PassDrainsQueues ==
    [][/\ (pc = "get_out" /\ pc' # "get_out") =>
              /\ stdout_queue' = <<>>
              /\ full_output' = full_output \o stdout_queue
       /\ (pc = "get_err" /\ pc' # "get_err") =>
              /\ stderr_queue' = <<>>
              /\ full_output' =
                     full_output \o [k \in 1..Len(stderr_queue) |->
                                        ErrorTagged(stderr_queue[k])]]_vars

\* C24: a reader thread ends if and only if its stream is at end of stream;
\* once the child has exited and no descendant holds a pipe the call of
\* execute_command_realtime returns; and it does not return while a
\* descendant holds a pipe open.
C24_ReaderLifetime ==
    /\ [][/\ (rdOut = "running" /\ rdOut' = "done") => OutAtEOF
          /\ (rdErr = "running" /\ rdErr' = "done") => ErrAtEOF
          /\ (pc = "join" /\ pc' # "join") => descendant = "none"]_vars
    /\ (rdOut = "running" /\ OutAtEOF) ~> (rdOut # "running")
    /\ (rdErr = "running" /\ ErrAtEOF) ~> (rdErr # "running")
    /\ (pc \in LoopPcs \cup {"join"} /\ proc = "exited" /\ descendant = "none")
           ~> (pc = "record")

\* C25: a reader that has read a line can put it on its queue at once,
\* whatever the number of lines queued and wherever the polling loop is:
\* the step of the reader is enabled whenever the reader runs and a line
\* it can decode is in its pipe.
C25_PutNeverBlocks ==
    /\ (rdOut = "running" /\ outPipe # <<>> /\ Decodable(Head(outPipe)))
           => ENABLED ReadOut
    /\ (rdErr = "running" /\ errPipe # <<>> /\ Decodable(Head(errPipe)))
           => ENABLED ReadErr

\* two lines of stdout are queued and the polling loop has taken none
C25_Witness ==
    /\ pc \in LoopPcs
    /\ Len(stdout_queue) = 2
    /\ full_output = <<>>
    /\ rdOut = "running"

\* C26: filter_commands applied to a text it has filtered returns that text
\* unchanged and reports no skipped line.
C26_Idempotent ==
    pc = "refiltered" =>
        /\ filtered_commands = commands
        /\ skipped_lines = <<>>

\* the second call was handed a text with a marker line and one more line
C26_Witness ==
    /\ pc = "refiltered"
    /\ Len(Split(commands)) = 2
    /\ \E n \in 1..2 : StartsWith(Split(commands)[n], SkipMarkerHead)

\* C27 as claimed: is_safe_command returns False for every line that
\* contains a colon.
C27_AnyColonUnsafe ==
    (verdict # "none" /\ Contains(commands, <<":">>)) => verdict = "unsafe"

\* C27, amended: of the lines with a colon (that match no other pattern)
\* is_safe_command rejects exactly those that contain ":{:" or ":&};:", the
\* two alternatives of the unescaped pattern; a colon by itself is accepted.
C27_ColonAlternatives ==
    (verdict # "none" /\ Contains(commands, <<":">>)) =>
        (verdict = "unsafe" <=>
            \/ Contains(commands, <<":", "{", ":">>)
            \/ Contains(commands, <<":", "&", "}", ";", ":">>))

\* a line with a colon and none of the two alternatives was accepted
C27_Witness ==
    /\ verdict = "safe"
    /\ commands = <<"e", "c", "h", "o", " ", "a", ":", "b">>

\* C28: in interactive mode the operator is asked whenever filter_commands
\* reports a skipped line, and an answer other than "y" or "Y" stores a
\* command record with exit code 1, calls execute_commands for no line of
\* the response (nothing is spawned) and ends the loop: no request and no
\* batch follows.
C28_DeclinedAborts ==
    [][/\ (/\ lpc = "commands"
           /\ interactive
           /\ commands # <<>>
           /\ filter_commands(commands).skipped # <<>>) => lpc' = "confirm"
       /\ (/\ lpc = "confirm"
           /\ lpc' \notin {"confirm", "raised"}
           /\ proceed' \notin {<<"y">>, <<"Y">>}) =>
               /\ lpc' = "complete"
               /\ Len(records') = Len(records) + 1
               /\ SubSeq(records', 1, Len(records)) = records
               /\ Last(records').exit_code = 1
               /\ Last(records').command_text = commands
               /\ UNCHANGED <<requests, batches, spawned, pc>>
       /\ lpc = "complete" => UNCHANGED <<requests, batches, spawned, pc>>]_vars

\* the second response was declined after the first one was executed
C28_Witness ==
    /\ lpc = "complete"
    /\ proceed = <<"n">>
    /\ requests = 2
    /\ batches = <<1>>
    /\ Len(records) = 2
    /\ Last(records).aborted
    /\ Last(records).exit_code = 1

\* C29: the requests made never exceed args.max_calls, and every call of
\* execute_commands belongs to a request of its own: the batches are
\* numbered by requests made, in strictly ascending order.
C29_CallsBounded ==
    /\ requests <= max_calls
    /\ Len(batches) <= requests
    /\ \A k \in 1..Len(batches) : batches[k] \in 1..requests
    /\ \A j, k \in 1..Len(batches) : j < k => batches[j] < batches[k]

\* all calls were used after a switch of session or a reset, each with a
\* batch
C29_Witness ==
    /\ lpc = "complete"
    /\ max_calls = 2
    /\ requests = 2
    /\ batches = <<1, 2>>
    /\ session_id # FirstSession

\* C4 as claimed: the returned transcript contains "ERROR:" if and only if
\* the batch was aborted.
C4_ErrorIffAborted ==
    pc = "done" => (Contains(retval, ErrorMark) <=> aborted # "no")

\* C4 as amended: the transcript of an aborted batch contains "ERROR:"; the
\* transcript of a batch that was not aborted contains it only if a line of
\* stderr was taken into it, or a command text or a line of stdout contains
\* the mark itself.
C4_AbortedHasError ==
    pc = "done" =>
        /\ aborted # "no" => Contains(retval, ErrorMark)
        /\ (aborted = "no" /\ Contains(retval, ErrorMark)) =>
               \/ tagged > 0
               \/ \E k \in 1..Len(spawned) : Contains(spawned[k], ErrorMark)
               \/ \E k \in 1..MaxWritten : Contains(OutLine(k), ErrorMark)

C4_Witness ==
    /\ pc = "done"
    /\ aborted = "no"
    /\ tagged > 0
    /\ Contains(retval, ErrorMark)

\* C5 as claimed: a batch of safe commands that all exit with code 0 is not
\* aborted and runs as many commands as the text has lines that are neither
\* blank nor comments.
C5_CleanBatchRunsAll ==
    (/\ pc = "done"
     /\ skipped_lines = <<>>
     /\ \A k \in 1..Len(exitCodes) : exitCodes[k] = 0)
        => /\ aborted = "no"
           /\ Len(spawned) = Cardinality(CandidateLines(commands))

\* C5 as amended: the same, provided no check at a command boundary finds
\* the timeout exceeded.
C5_CleanBatchRunsAllInTime ==
    (/\ pc = "done"
     /\ skipped_lines = <<>>
     /\ \A k \in 1..Len(exitCodes) : exitCodes[k] = 0
     /\ aborted # "timeout")
        => /\ aborted = "no"
           /\ Len(spawned) = Cardinality(CandidateLines(commands))
           /\ Len(exitCodes) = Len(spawned)

C5_Witness ==
    /\ pc = "done"
    /\ skipped_lines = <<>>
    /\ aborted = "no"
    /\ Len(Split(commands)) = 2
    /\ Len(spawned) = 1
    /\ now - start_time > timeout

\* C6: the step that leaves the head of the loop with a command still to
\* run compares the elapsed time with the timeout: if it is exceeded the
\* timeout notice is appended and the loop is left, otherwise the command is
\* started; a command is started only after such a check, and after the
\* notice none is started any more.
C6_TimeoutChecked ==
    /\ [][/\ (pc = "for" /\ pc' # "for" /\ i < Len(command_lines)) =>
                 IF now - start_time > timeout
                 THEN /\ pc' = "summary"
                      /\ output_parts' =
                             Append(output_parts, TimeoutNotice(timeout))
                      /\ spawned' = spawned
                 ELSE pc' = "popen"
          /\ (pc' = "popen" /\ pc # "popen") => pc = "for"
          /\ spawned' # spawned => pc = "popen"]_vars
    /\ [](aborted = "timeout" => pc \in {"summary", "done"})

C6_Witness ==
    /\ pc = "done"
    /\ aborted = "timeout"
    /\ Len(spawned) = 1
    /\ Len(command_lines) = 2
    /\ Contains(retval, TimeoutNotice(timeout))

\* C7 as claimed: with timeout 0 and at least one command no command is ever
\* spawned, and the returned transcript contains the timeout notice.
C7_ZeroTimeoutRunsNothing ==
    (timeout = 0 /\ pc \notin {"start", "exec_entry"} /\ command_lines # <<>>)
        => /\ spawned = <<>>
           /\ pc = "done" => Contains(retval, TimeoutNotice(0))

\* C7 as amended: with timeout 0 and at least one command, the first check
\* leaves the loop, with the timeout notice and without a spawned command,
\* if the clock has moved on since the start of the batch; if it has not,
\* the first command is started.
C7_ZeroTimeoutFirstCheck ==
    /\ [][(/\ timeout = 0
           /\ pc = "for"
           /\ pc' # "for"
           /\ i = 0
           /\ command_lines # <<>>) =>
              IF now > start_time
              THEN /\ pc' = "summary"
                   /\ spawned' = <<>>
                   /\ output_parts' = <<TimeoutNotice(0)>>
              ELSE pc' = "popen"]_vars
    /\ []((timeout = 0 /\ pc = "done" /\ aborted = "timeout" /\ exitCodes = <<>>)
              => /\ spawned = <<>>
                 /\ Contains(retval, TimeoutNotice(0)))

C7_Witness ==
    /\ timeout = 0
    /\ pc = "done"
    /\ aborted = "timeout"
    /\ command_lines # <<>>
    /\ spawned = <<>>

\* C8: the timeout ends the batch only at the head of the loop, when no
\* child is running; a running child ends by its own exit alone, the polling
\* loop is left only after that exit, and the exit code and the transcript
\* of the command are taken over, whatever the elapsed time.
C8_RunningCommandNotCut ==
    [][/\ (proc = "running" /\ proc' # "running") =>
              /\ proc' = "exited"
              /\ exitStatus' \in ExitCodes
              /\ pc' = pc
              /\ returncode' = returncode
       /\ (aborted' = "timeout" /\ aborted # "timeout") =>
              (pc = "for" /\ proc = "none")
       /\ (pc \in LoopPcs /\ pc' \notin LoopPcs) =>
              (pc' = "join" /\ proc = "exited" /\ returncode = exitStatus)
       /\ (pc = "join" /\ pc' # "join") =>
              /\ pc' = "record"
              /\ result' = [code |-> exitStatus, output |-> Concat(full_output)]
       /\ (pc = "record" /\ pc' # "record") =>
              /\ Len(output_parts') >= Len(output_parts) + 2
              /\ SubSeq(output_parts', 1, Len(output_parts) + 2) =
                     output_parts
                       \o <<CommandHeader(Len(spawned), spawned[Len(spawned)]),
                            result.output>>]_vars

C8_Witness ==
    /\ pc = "record"
    /\ now - start_time > timeout
    /\ result.code = exitStatus
    /\ result.output # <<>>

\* C9: for an empty or blank text execute_commands returns at once with
\* "No commands to execute." and no process is spawned.
C9_NothingToExecute ==
    [][(pc = "exec_entry" /\ Strip(filtered_commands) = <<>>) =>
           /\ pc' = "done"
           /\ retval' = NoCommandsText
           /\ spawned' = <<>>]_vars

C9_Witness ==
    /\ pc = "done"
    /\ retval = NoCommandsText
    /\ commands # <<>>
    /\ spawned = <<>>

====
